---- MODULE Spec2Model ----
(***************************************************************************)
(* Referee for Hash Code 2021 "Traffic Signaling": parseInputDataSet,      *)
(* parseSubmittedDataSet and simulate of the two implementations kept in   *)
(* the repository:                                                         *)
(*   tk  the ticket-counter implementation (src/unnamed/part_001:          *)
(*       nextQueuingNumber / lastQueuingNumber on every street),           *)
(*   aq  the array-queue implementation (src/index.js: carIdQueue with     *)
(*       push / shift).                                                    *)
(* Both are run side by side on the same dataset and the same submission.  *)
(***************************************************************************)
EXTENDS Integers, Sequences, FiniteSets, TLC

\* ------------------------------------------------------------------ bounds
MaxCars == 2
MaxDuration == 3
MaxScheduled == 2

\* ------------------------------------------------------------------ tokens
\* A token is the text between two spaces of a line.  Its text is kept apart
\* from its numeric value: "1" and "01" are different texts (different object
\* keys) with the same number.
Digits(n, lead) == [kind |-> "digits", val |-> n, lead |-> lead, word |-> ""]
Word(w) == [kind |-> "word", val |-> 0, lead |-> 0, word |-> w]
EmptyToken == [kind |-> "empty", val |-> 0, lead |-> 0, word |-> ""]

\* A line is the sequence of its tokens (String.prototype.split(' ') never
\* returns an empty array); a read past the end of the array is undefined.
Undefined == << >>

\* isNaN(x) of a token text / of an undefined value.
IsNaNToken(tok) == tok.kind = "word"

\* Unary plus / Number(text); only read where IsNaNToken is false.
ToNumber(tok) == IF tok.kind = "digits" THEN tok.val ELSE 0

\* String(n) of a non-negative integer: the key a number is looked up under.
CanonicalKey(n) == << Digits(n, 0) >>

\* The text of a street-name token, as a key of dataset.streets.
NameOf(tok) == IF tok.kind = "word" THEN tok.word ELSE ""

\* isNaN of a whole raw line (the count line is never split).
IsNaNLine(line) == Len(line) # 1 \/ IsNaNToken(line[1])

\* +line of a whole raw line.
LineToNumber(line) == ToNumber(line[1])

\* parseLine(rawLine, [1]): [streetName, schedule]; schedule is undefined when
\* the line has one token.  parseLine(undefined) throws a TypeError.
ParseLineThrows(line) == line = Undefined
ScheduleIsNaN(line) == Len(line) < 2 \/ IsNaNToken(line[2])
ScheduleOf(line) == ToNumber(line[2])

\* ----------------------------------------------------------------- dataset
StreetNames == {"a", "b", "c"}

\* B E of the street lines: a: 0 -> 1, b: 2 -> 1, c: 1 -> 2.
StreetStart == [a |-> 0, b |-> 2, c |-> 1]
StreetEnd == [a |-> 1, b |-> 1, c |-> 2]

Routes ==
  { <<"a">>, <<"a", "c">>, <<"b", "c">>, <<"a", "c", "b">>,
    <<"c", "b", "c">> }

\* L of the street lines.
StreetDurations ==
  { [a |-> 1, b |-> 1, c |-> 1], [a |-> 1, b |-> 2, c |-> 2] }

CarLists == UNION { [1..n -> Routes] : n \in 1..MaxCars }

Datasets ==
  [ duration : (MaxDuration - 1)..MaxDuration,
    numIntersections : {Cardinality({StreetEnd[s] : s \in StreetNames}) + 1},
    bonusPoint : {1000},
    streetDuration : StreetDurations,
    routes : CarLists ]

\* Example scenario 1 of the design: one street of duration 3, one car.
Scenario1 ==
  [ duration |-> 5, numIntersections |-> 2, bonusPoint |-> 1000,
    streetDuration |-> [a |-> 3, b |-> 1, c |-> 1],
    routes |-> << <<"a">> >> ]

VARIABLES
  reads,          \* the two readInput promises: pending, done or failed
  argv,           \* process.argv after the file path, from where it is read
  input,          \* the dataset file
  declared,       \* +lines.shift() of the submission: its first line
  lines,          \* the submission lines read so far (after the shift)
  eof,            \* TRUE when lines is the whole file
  accepted,       \* history: the schedule entries read so far
  pc,
  val,            \* loop variables of parseSubmittedDataSet
  tk,             \* dataset of src/unnamed/part_001
  aq,             \* dataset and intersectionSchedulesById of src/index.js
  remainingTime, time, carIdx,   \* loop variables of simulate
  crossLog        \* history: the crossings of the current tick

vars ==
  << reads, argv, input, declared, lines, eof, accepted, pc, val, tk, aq,
     remainingTime, time, carIdx, crossLog >>

simVars == << remainingTime, time, carIdx, crossLog >>
envVars == << reads, argv, input >>
fileVars == << declared, lines, eof, accepted >>

\* ---------------------------------------------------- parseInputDataSet
\* A number the code keeps as a quotient: num / den (den = 0 gives NaN or
\* Infinity in the code).
Quotient(n, d) == [num |-> n, den |-> d]

\* The values createInsights() puts in the report, before it has run.
NoInsights ==
  [ noColor |-> FALSE, score |-> 0, bonusPoints |-> 0, bonusPoint |-> 0,
    earlyArrivalBonus |-> 0, numArrivedCars |-> 0, numCars |-> 0,
    earliest |-> << >>, last |-> << >>,
    averageCommuteTime |-> Quotient(0, 1), numIntersections |-> 0,
    totalCycles |-> Quotient(0, 1), greenCycles |-> Quotient(0, 1) ]

\* src/unnamed/part_001: the state of the module before evaluate() runs; calls
\* is the set of the functions of evaluate() entered so far, stdout, file and
\* stderr tell what the run has printed and written.
TicketInitial ==
  [ err |-> "none",
    streets |-> << >>,
    cars |-> << >>,
    intersectionSchedulesById |-> {},
    streetNames |-> << >>,
    totalCycles |-> 0,
    averageIntersectionSchedules |->
      [greenCycles |-> Quotient(0, 1), totalCycles |-> Quotient(0, 1)],
    isIntersectionCrossedInThisIteration |-> {},
    calls |-> {},
    insights |-> NoInsights,
    stdout |-> FALSE,
    file |-> FALSE,
    stderr |-> FALSE ]

\* src/index.js: the state of the module before evaluate() runs.
ArrayInitial ==
  [ err |-> "none",
    streets |-> << >>,
    cars |-> << >>,
    intersectionSchedulesById |-> << >>,
    totalCycles |-> 0,
    averageIntersectionSchedules |->
      [greenCycles |-> Quotient(0, 1), totalCycles |-> Quotient(0, 1)],
    isIntersectionCrossedInThisIteration |-> {},
    calls |-> {},
    insights |-> NoInsights,
    stdout |-> FALSE,
    file |-> FALSE,
    stderr |-> FALSE ]

\* Mutant: the car starts at the beginning of its first street.
InitialRemainingTimeOnStreet_WholeStreet(in, route) ==
  in.streetDuration[route[1]]

\* The remaining time on its first street a car is created with.
InitialRemainingTimeOnStreet(in, route) == 0

\* part_001: the street records of the first loop.
TicketStreets(in) ==
  [ s \in StreetNames |->
      [ start |-> StreetStart[s], end |-> StreetEnd[s],
        duration |-> in.streetDuration[s],
        lastQueuingNumber |-> -1, nextQueuingNumber |-> 0,
        schedule |-> Undefined, scheduledTimeWindow |-> 0 ] ]

\* part_001: the second loop, from car line k on; every car takes the next
\* queuing number of its first street.
RECURSIVE TicketPushCars(_, _, _, _)
TicketPushCars(in, streets, cars, k) ==
  IF k > Len(in.routes) THEN [streets |-> streets, cars |-> cars]
  ELSE
    LET streetNames == in.routes[k]
        first == streetNames[1]
        car == [ numStreets |-> Len(streetNames),
                 streetNames |-> streetNames,
                 currentStreetIdx |-> 0,
                 currentStreetName |-> first,
                 remainingTimeOnStreet |->
                   InitialRemainingTimeOnStreet(in, streetNames),
                 queuingNumber |-> streets[first].nextQueuingNumber,
                 arrived |-> FALSE,
                 score |-> 0,
                 commuteTime |-> 0 ]
    IN TicketPushCars(
         in,
         [streets EXCEPT ![first].nextQueuingNumber = @ + 1],
         Append(cars, car),
         k + 1)

\* index.js: the street records of the first loop.
ArrayStreets(in) ==
  [ s \in StreetNames |->
      [ start |-> StreetStart[s], end |-> StreetEnd[s],
        duration |-> in.streetDuration[s],
        carIdQueue |-> << >> ] ]

\* index.js: the second loop; every car is pushed on the queue of its first
\* street.  Cars are numbered from 1 here (i - numStreets + 1).
RECURSIVE ArrayPushCars(_, _, _, _)
ArrayPushCars(in, streets, cars, k) ==
  IF k > Len(in.routes) THEN [streets |-> streets, cars |-> cars]
  ELSE
    LET streetNames == in.routes[k]
        first == streetNames[1]
        car == [ numStreets |-> Len(streetNames),
                 streetNames |-> streetNames,
                 currentStreetIdx |-> 0,
                 remainingTimeOnStreet |->
                   InitialRemainingTimeOnStreet(in, streetNames),
                 arrived |-> FALSE,
                 score |-> 0,
                 commuteTime |-> 0 ]
    IN ArrayPushCars(
         in,
         [streets EXCEPT ![first].carIdQueue = Append(@, k)],
         Append(cars, car),
         k + 1)

ParseInputDataSet ==
  /\ pc = "parseInput"
  /\ LET t == TicketPushCars(input, TicketStreets(input), << >>, 1)
         a == ArrayPushCars(input, ArrayStreets(input), << >>, 1)
     IN /\ tk' = [tk EXCEPT !.streets = t.streets, !.cars = t.cars,
                             !.calls = @ \cup {"parseInputDataSet"}]
        /\ aq' = [aq EXCEPT !.streets = a.streets, !.cars = a.cars,
                             !.calls = @ \cup {"parseInputDataSet"}]
  /\ pc' = "parseSubmitted"
  /\ UNCHANGED << envVars, fileVars, val, simVars >>

Files == {"dataset", "submission"}

\* The state at the call of Promise.all when the reads have settled as
\* startReads; evaluate() is entered at startPc = "parseInput".
InitState(D, startPc, startReads) ==
  /\ reads = startReads
  /\ argv = << >>
  /\ input \in D
  /\ declared = 0
  /\ lines = << >>
  /\ eof = FALSE
  /\ accepted = << >>
  /\ pc = startPc
  /\ val = [ i |-> 0, currentLine |-> 0, j |-> 0, numSchedules |-> 0,
             intersectionId |-> Undefined, numIncomingStreets |-> 0,
             lastScheduleTime |-> 0 ]
  /\ tk = TicketInitial
  /\ aq = ArrayInitial
  /\ remainingTime = 0
  /\ time = 0
  /\ carIdx = 0
  /\ crossLog = [tk |-> {}, aq |-> {}]

\* Both files have been read.
InitWith(D) == InitState(D, "parseInput", [f \in Files |-> "done"])

\* ------------------------------------------------- parseSubmittedDataSet
\* lines[k], k counted from 0 as in the code.
At(L, k) == IF k + 1 <= Len(L) THEN L[k + 1] ELSE Undefined

\* object[key] = value on an object kept as a function.
Put(f, k, v) == [x \in DOMAIN f \cup {k} |-> IF x = k THEN v ELSE f[x]]

Max(a, b) == IF a >= b THEN a ELSE b

\* Mutant: an error of part_001 does not end its chain.
TkLive_ErrorIgnored == TRUE

TkLive == tk.err = "none"
AqLive == aq.err = "none"

\* An error thrown inside the promise chain skips its remaining handlers and
\* reaches .catch(console.error), which prints it.
Throws(d, error) == [d EXCEPT !.err = error, !.stderr = TRUE]

\* The file is revealed as it is read: a read at the first unread index either
\* finds a further line or finds the end of the file.
Reveal(ext, upTo) ==
  LET needed == Max(0, upTo + 1 - Len(lines))
  IN /\ Len(ext) <= needed
     /\ eof => ext = << >>
     /\ lines' = lines \o ext
     /\ eof' = (eof \/ Len(ext) < needed)

\* const numIntersections = +lines.shift() and the locals of the function.
ParseSubmittedStart ==
  /\ pc = "parseSubmitted"
  /\ \E A \in 0..MaxScheduled : declared' = A
  /\ val' = [val EXCEPT !.i = 0, !.currentLine = 0, !.numSchedules = 0]
  /\ tk' = [tk EXCEPT !.calls = @ \cup {"parseSubmittedDataSet"}]
  /\ aq' = [aq EXCEPT !.calls = @ \cup {"parseSubmittedDataSet"}]
  /\ pc' = "intersection"
  /\ UNCHANGED << envVars, lines, eof, accepted, simVars >>

\* The checks on the two header lines of an intersection; seen is the set of
\* keys of intersectionSchedulesById.
DuplicateIntersection(seen, intersectionId) == intersectionId \in seen

HeaderError(seen, intersectionId, numIncomingStreets) ==
  IF numIncomingStreets = Undefined THEN "TruncatedSubmission"
  ELSE IF IsNaNLine(numIncomingStreets) THEN "MalformedCount"
  ELSE IF DuplicateIntersection(seen, intersectionId)
       THEN "DuplicateIntersectionSchedule"
  ELSE "none"

\* One pass of the outer loop up to the inner loop.
ReadIntersection(IdLines, CountLines) ==
  /\ pc = "intersection"
  /\ val.i < declared
  /\ \E ext \in {<< >>} \cup {<<a>> : a \in IdLines}
                \cup {<<a, c>> : a \in IdLines, c \in CountLines} :
       /\ Reveal(ext, val.currentLine + val.i + 1)
       /\ LET intersectionId == At(lines', val.currentLine + val.i)
              numIncomingStreets == At(lines', val.currentLine + val.i + 1)
              tkErr == HeaderError(tk.intersectionSchedulesById,
                                   intersectionId, numIncomingStreets)
              aqErr == HeaderError(DOMAIN aq.intersectionSchedulesById,
                                   intersectionId, numIncomingStreets)
              tkOk == TkLive /\ tkErr = "none"
              aqOk == AqLive /\ aqErr = "none"
          IN /\ tk' = IF ~TkLive THEN tk
                      ELSE IF tkErr # "none" THEN Throws(tk, tkErr)
                      ELSE [tk EXCEPT
                              !.intersectionSchedulesById =
                                 @ \cup {intersectionId},
                              !.streetNames = << >>]
             /\ aq' = IF ~AqLive THEN aq
                      ELSE IF aqErr # "none" THEN Throws(aq, aqErr)
                      ELSE [aq EXCEPT
                              !.intersectionSchedulesById =
                                 Put(@, intersectionId,
                                     [windows |-> << >>,
                                      scheduledTimeWindow |-> 0])]
             /\ IF tkOk \/ aqOk
                THEN /\ val' = [val EXCEPT
                                  !.intersectionId = intersectionId,
                                  !.numIncomingStreets =
                                     LineToNumber(numIncomingStreets),
                                  !.numSchedules =
                                     @ + LineToNumber(numIncomingStreets),
                                  !.lastScheduleTime = 0,
                                  !.j = 0]
                     /\ accepted' =
                          Append(accepted,
                                 [id |-> intersectionId, streets |-> << >>])
                     /\ pc' = "street"
                ELSE /\ UNCHANGED << val, accepted >>
                     /\ pc' = "failed"
  /\ UNCHANGED << envVars, declared, simVars >>

\* dataset.streets[streetName].end !== +intersectionId
EndDiffers(end, intersectionId) ==
  IsNaNLine(intersectionId) \/ end # LineToNumber(intersectionId)

\* Mutant: the lower bound of the range test is off by one.
GreenOutOfRange_ZeroAllowed(schedule, duration) ==
  schedule < 0 \/ schedule > duration

\* schedule < 1 || schedule > dataset.simulation.duration
GreenOutOfRange(schedule, duration) == schedule < 1 \/ schedule > duration

\* The checks on one street line, in the order of the code.
StreetLineError(streets, duration, intersectionId, line) ==
  IF ParseLineThrows(line) THEN "TypeError"
  ELSE IF /\ NameOf(line[1]) \in DOMAIN streets
          /\ EndDiffers(streets[NameOf(line[1])].end, intersectionId)
       THEN "StreetIntersectionMismatch"
  ELSE IF ScheduleIsNaN(line) THEN "MalformedGreenDuration"
  ELSE IF GreenOutOfRange(ScheduleOf(line), duration)
       THEN "GreenDurationOutOfRange"
  ELSE "none"

\* part_001 stores the window on dataset.streets[streetName], which throws a
\* TypeError when the street is not in the dataset.
TicketStreetLineError(streets, duration, intersectionId, line) ==
  LET e == StreetLineError(streets, duration, intersectionId, line)
  IN IF e = "none" /\ NameOf(line[1]) \notin DOMAIN streets
     THEN "TypeError" ELSE e

\* The green window [gte, lte] of the street listed at offset lastScheduleTime.
Window(lastScheduleTime, schedule) ==
  << lastScheduleTime, lastScheduleTime + schedule - 1 >>

\* One pass of the inner loop.
ReadStreet(StreetLines) ==
  /\ pc = "street"
  /\ val.j < val.numIncomingStreets
  /\ \E ext \in {<< >>} \cup {<<l>> : l \in StreetLines} :
       /\ Reveal(ext, val.currentLine + val.i + 2 + val.j)
       /\ LET line == At(lines', val.currentLine + val.i + 2 + val.j)
              duration == input.duration
              tkErr == TicketStreetLineError(tk.streets, duration,
                                             val.intersectionId, line)
              aqErr == StreetLineError(aq.streets, duration,
                                       val.intersectionId, line)
              tkOk == TkLive /\ tkErr = "none"
              aqOk == AqLive /\ aqErr = "none"
              streetName == NameOf(line[1])
              schedule == ScheduleOf(line)
              w == Window(val.lastScheduleTime, schedule)
          IN /\ tk' = IF ~TkLive THEN tk
                      ELSE IF tkErr # "none" THEN Throws(tk, tkErr)
                      ELSE [tk EXCEPT
                              !.streets[streetName].schedule = w,
                              !.streetNames = Append(@, streetName)]
             /\ aq' = IF ~AqLive THEN aq
                      ELSE IF aqErr # "none" THEN Throws(aq, aqErr)
                      ELSE [aq EXCEPT
                              !.intersectionSchedulesById[val.intersectionId]
                                 .windows = Put(@, streetName, w),
                              !.totalCycles = @ + schedule]
             /\ IF tkOk \/ aqOk
                THEN /\ val' = [val EXCEPT
                                  !.lastScheduleTime = @ + schedule,
                                  !.j = @ + 1]
                     /\ accepted' =
                          [accepted EXCEPT ![Len(accepted)].streets =
                             Append(@, [name |-> streetName,
                                        green |-> schedule])]
                     /\ pc' = "street"
                ELSE /\ UNCHANGED << val, accepted >>
                     /\ pc' = "failed"
  /\ UNCHANGED << envVars, declared, simVars >>

\* After the inner loop: the cycle length of the intersection is recorded and
\* currentLine moves past its street lines.
CloseIntersection ==
  /\ pc = "street"
  /\ val.j >= val.numIncomingStreets
  /\ tk' = IF ~TkLive THEN tk
           ELSE [tk EXCEPT
                   !.streets =
                      [s \in DOMAIN @ |->
                         IF \E k \in 1..Len(tk.streetNames) :
                              tk.streetNames[k] = s
                         THEN [@[s] EXCEPT !.scheduledTimeWindow =
                                              val.lastScheduleTime]
                         ELSE @[s]],
                   !.totalCycles = @ + val.lastScheduleTime]
  /\ aq' = IF ~AqLive THEN aq
           ELSE [aq EXCEPT
                   !.intersectionSchedulesById[val.intersectionId]
                      .scheduledTimeWindow = val.lastScheduleTime]
  /\ val' = [val EXCEPT !.currentLine = @ + val.numIncomingStreets + 1,
                        !.i = @ + 1]
  /\ pc' = "intersection"
  /\ UNCHANGED << envVars, fileVars, simVars >>

\* Mutant: the sum is divided by the number of intersections the submission
\* declares.
AverageTotalCycles_PerScheduled(totalCycles, in, numIntersections) ==
  Quotient(totalCycles, numIntersections)

\* averageIntersectionSchedules.totalCycles /= dataset.simulation.numIntersections;
\* numIntersections is the local of the function, the first line of the file.
AverageTotalCycles(totalCycles, in, numIntersections) ==
  Quotient(totalCycles, in.numIntersections)

\* The two averages computed after the outer loop; the function returns and
\* its local array of lines is gone.
FinishValidation ==
  /\ pc = "intersection"
  /\ val.i >= declared
  /\ tk' = IF ~TkLive THEN tk
           ELSE [tk EXCEPT !.averageIntersectionSchedules =
                   [greenCycles |-> Quotient(tk.totalCycles, val.numSchedules),
                    totalCycles |->
                      AverageTotalCycles(tk.totalCycles, input, declared)]]
  /\ aq' = IF ~AqLive THEN aq
           ELSE [aq EXCEPT !.averageIntersectionSchedules =
                   [greenCycles |-> Quotient(aq.totalCycles, val.numSchedules),
                    totalCycles |->
                      AverageTotalCycles(aq.totalCycles, input, declared)]]
  /\ lines' = << >>
  /\ eof' = FALSE
  /\ pc' = "simulate"
  /\ UNCHANGED << envVars, declared, accepted, val, simVars >>

\* ---------------------------------------------------------------- simulate
\* Mutant: the car is registered one tick before it finishes the street.
RegistersInQueue_OneTickEarly(car) ==
  car.remainingTimeOnStreet = 2 /\ car.currentStreetIdx < car.numStreets - 1

\* car.remainingTimeOnStreet === 1 && car.currentStreetIdx < car.numStreets - 1
RegistersInQueue(car) ==
  car.remainingTimeOnStreet = 1 /\ car.currentStreetIdx < car.numStreets - 1

\* car.currentStreetIdx === car.numStreets - 1
OnLastStreet(car) == car.currentStreetIdx = car.numStreets - 1

\* Mutant: the score is taken before the decrement of remainingTime.
ArrivalScore_BeforeDecrement(bonusPoint, remaining) ==
  bonusPoint + remaining + 1

\* car.score = dataset.simulation.bonusPoint + remainingTime
ArrivalScore(bonusPoint, remaining) == bonusPoint + remaining

\* Mutant: the test of the last tick is missing.
NoTimeLeft_Never(remaining) == FALSE

\* if (remainingTime === 0) continue;
NoTimeLeft(remaining) == remaining = 0

\* Mutant: the lower bound of the window is not tested.
IsTrafficLightGreen_NoLowerBound(window, t, scheduledTimeWindow) ==
  window[2] >= t % scheduledTimeWindow

\* const timePart = time % scheduledTimeWindow;
\* isTrafficLightGreen = gte <= timePart && lte >= timePart;
IsTrafficLightGreen(window, t, scheduledTimeWindow) ==
  LET timePart == t % scheduledTimeWindow
  IN window[1] <= timePart /\ window[2] >= timePart

\* Mutant: a street without a schedule is green.
TicketGreen_GreenByDefault(street, t) ==
  \/ street.schedule = Undefined
  \/ (t % street.scheduledTimeWindow) \in
       street.schedule[1]..street.schedule[2]

\* part_001: if (schedule) { ... }
TicketGreen(street, t) ==
  /\ street.schedule # Undefined
  /\ IsTrafficLightGreen(street.schedule, t, street.scheduledTimeWindow)

\* index.js: if (intersectionSchedulesById[end] &&
\*               intersectionSchedulesById[end][streetName]) { ... }
ArrayGreen(schedules, end, streetName, t) ==
  /\ CanonicalKey(end) \in DOMAIN schedules
  /\ streetName \in DOMAIN schedules[CanonicalKey(end)].windows
  /\ IsTrafficLightGreen(schedules[CanonicalKey(end)].windows[streetName], t,
                         schedules[CanonicalKey(end)].scheduledTimeWindow)

\* Mutant: the marker of the tick is not read.
AlreadyCrossed_Never(marker, streetName) == FALSE

\* isIntersectionCrossedInThisIteration[streetName]
AlreadyCrossed(marker, streetName) == streetName \in marker

\* Mutant: any queuing number after the last one may cross.
TicketIsHead_AnyLater(lastQueuingNumber, queuingNumber) ==
  lastQueuingNumber < queuingNumber

\* part_001: dataset.streets[streetName].lastQueuingNumber + 1 === car.queuingNumber
TicketIsHead(lastQueuingNumber, queuingNumber) ==
  lastQueuingNumber + 1 = queuingNumber

\* index.js: carIdQueue[0] === i
ArrayIsHead(carIdQueue, i) == Len(carIdQueue) > 0 /\ carIdQueue[1] = i

\* Mutant: an arrived car is processed like any other.
SkipsCar_Never(car) == FALSE

\* if (car.arrived) { continue; }
SkipsCar(car) == car.arrived

\* part_001: the body of the for loop for car i at tick t.
TicketProcessCar(d, i, t, remaining, bonusPoint) ==
  LET car0 == d.cars[i]
      streetName == car0.currentStreetName
      registers == RegistersInQueue(car0)
      streets1 == IF registers
                  THEN [d.streets EXCEPT ![streetName].nextQueuingNumber = @ + 1]
                  ELSE d.streets
      car1 == IF registers
              THEN [car0 EXCEPT !.queuingNumber =
                                   d.streets[streetName].nextQueuingNumber]
              ELSE car0
      car2 == IF car1.remainingTimeOnStreet > 0
              THEN [car1 EXCEPT !.remainingTimeOnStreet = @ - 1]
              ELSE car1
      waits == [d EXCEPT !.streets = streets1, !.cars[i] = car2]
  IN IF SkipsCar(car0) THEN d
     ELSE IF car2.remainingTimeOnStreet # 0 THEN waits
     ELSE IF OnLastStreet(car2)
       THEN [waits EXCEPT !.cars[i].arrived = TRUE,
                          !.cars[i].score = ArrivalScore(bonusPoint, remaining),
                          !.cars[i].commuteTime = t]
     ELSE IF NoTimeLeft(remaining) THEN waits
     ELSE IF \/ ~TicketGreen(streets1[streetName], t)
             \/ AlreadyCrossed(d.isIntersectionCrossedInThisIteration,
                               streetName)
             \/ ~TicketIsHead(streets1[streetName].lastQueuingNumber,
                              car2.queuingNumber)
       THEN waits
     ELSE
       LET next == car2.streetNames[car2.currentStreetIdx + 2]
       IN [d EXCEPT
             !.isIntersectionCrossedInThisIteration = @ \cup {streetName},
             !.streets = [streets1 EXCEPT ![streetName].lastQueuingNumber =
                                             car2.queuingNumber],
             !.cars[i] = [car2 EXCEPT
                            !.currentStreetIdx = @ + 1,
                            !.currentStreetName = next,
                            !.remainingTimeOnStreet = streets1[next].duration]]

\* index.js: the body of the for loop for car i at tick t.
ArrayProcessCar(d, i, t, remaining, bonusPoint) ==
  LET car0 == d.cars[i]
      streetName == car0.streetNames[car0.currentStreetIdx + 1]
      streets1 == IF RegistersInQueue(car0)
                  THEN [d.streets EXCEPT ![streetName].carIdQueue = Append(@, i)]
                  ELSE d.streets
      car2 == IF car0.remainingTimeOnStreet > 0
              THEN [car0 EXCEPT !.remainingTimeOnStreet = @ - 1]
              ELSE car0
      waits == [d EXCEPT !.streets = streets1, !.cars[i] = car2]
  IN IF SkipsCar(car0) THEN d
     ELSE IF car2.remainingTimeOnStreet # 0 THEN waits
     ELSE IF OnLastStreet(car2)
       THEN [waits EXCEPT !.cars[i].arrived = TRUE,
                          !.cars[i].score = ArrivalScore(bonusPoint, remaining),
                          !.cars[i].commuteTime = t]
     ELSE IF NoTimeLeft(remaining) THEN waits
     ELSE IF \/ ~ArrayGreen(d.intersectionSchedulesById,
                            streets1[streetName].end, streetName, t)
             \/ AlreadyCrossed(d.isIntersectionCrossedInThisIteration,
                               streetName)
             \/ ~ArrayIsHead(streets1[streetName].carIdQueue, i)
       THEN waits
     ELSE
       LET next == car2.streetNames[car2.currentStreetIdx + 2]
       IN [d EXCEPT
             !.isIntersectionCrossedInThisIteration = @ \cup {streetName},
             !.streets = [streets1 EXCEPT ![streetName].carIdQueue = Tail(@)],
             !.cars[i] = [car2 EXCEPT
                            !.currentStreetIdx = @ + 1,
                            !.remainingTimeOnStreet = streets1[next].duration]]

\* Mutant: the loop starts from duration and leaves out the last tick.
StartSimulate_NoFinalTick ==
  /\ pc = "simulate"
  /\ remainingTime' = input.duration
  /\ time' = 0
  /\ tk' = IF TkLive THEN [tk EXCEPT !.calls = @ \cup {"simulate"}] ELSE tk
  /\ aq' = IF AqLive THEN [aq EXCEPT !.calls = @ \cup {"simulate"}] ELSE aq
  /\ pc' = "tick"
  /\ UNCHANGED << envVars, fileVars, val, carIdx, crossLog >>

\* let remainingTime = dataset.simulation.duration + 1; let time = 0;
StartSimulate ==
  /\ pc = "simulate"
  /\ remainingTime' = input.duration + 1
  /\ time' = 0
  /\ tk' = IF TkLive THEN [tk EXCEPT !.calls = @ \cup {"simulate"}] ELSE tk
  /\ aq' = IF AqLive THEN [aq EXCEPT !.calls = @ \cup {"simulate"}] ELSE aq
  /\ pc' = "tick"
  /\ UNCHANGED << envVars, fileVars, val, carIdx, crossLog >>

\* while (remainingTime--) and the fresh marker of the tick.
Tick ==
  /\ pc = "tick"
  /\ remainingTime' = remainingTime - 1
  /\ IF remainingTime = 0
     THEN /\ pc' = "insights"
          /\ UNCHANGED << tk, aq, carIdx, crossLog >>
     ELSE /\ pc' = "car"
          /\ carIdx' = 1
          /\ tk' = IF TkLive
                   THEN [tk EXCEPT !.isIntersectionCrossedInThisIteration = {}]
                   ELSE tk
          /\ aq' = IF AqLive
                   THEN [aq EXCEPT !.isIntersectionCrossedInThisIteration = {}]
                   ELSE aq
          /\ crossLog' = [tk |-> {}, aq |-> {}]
  /\ UNCHANGED << envVars, fileVars, val, time >>

\* One pass of the loop over the cars.  crossLog records, from the states
\* before and after, every car whose route index has moved.
ProcessCar ==
  /\ pc = "car"
  /\ carIdx <= Len(input.routes)
  /\ tk' = IF TkLive
           THEN TicketProcessCar(tk, carIdx, time, remainingTime,
                                 input.bonusPoint)
           ELSE tk
  /\ aq' = IF AqLive
           THEN ArrayProcessCar(aq, carIdx, time, remainingTime,
                                input.bonusPoint)
           ELSE aq
  /\ crossLog' =
       [ tk |-> IF TkLive /\ tk'.cars[carIdx].currentStreetIdx
                              # tk.cars[carIdx].currentStreetIdx
                THEN crossLog.tk \cup
                     { [ car |-> carIdx,
                         street |-> tk.cars[carIdx].currentStreetName,
                         time |-> time,
                         queuingNumber |-> tk'.cars[carIdx].queuingNumber,
                         last |-> tk.streets[tk.cars[carIdx].currentStreetName]
                                    .lastQueuingNumber,
                         from |-> tk.cars[carIdx].currentStreetIdx,
                         to |-> tk'.cars[carIdx].currentStreetIdx ] }
                ELSE crossLog.tk,
         aq |-> IF AqLive /\ aq'.cars[carIdx].currentStreetIdx
                              # aq.cars[carIdx].currentStreetIdx
                THEN crossLog.aq \cup
                     { [ car |-> carIdx,
                         street |-> aq.cars[carIdx].streetNames[
                                      aq.cars[carIdx].currentStreetIdx + 1],
                         time |-> time,
                         queue |-> IF RegistersInQueue(aq.cars[carIdx])
                                   THEN Append(
                                     aq.streets[aq.cars[carIdx].streetNames[
                                       aq.cars[carIdx].currentStreetIdx + 1]]
                                       .carIdQueue, carIdx)
                                   ELSE
                                     aq.streets[aq.cars[carIdx].streetNames[
                                       aq.cars[carIdx].currentStreetIdx + 1]]
                                       .carIdQueue,
                         from |-> aq.cars[carIdx].currentStreetIdx,
                         to |-> aq'.cars[carIdx].currentStreetIdx ] }
                ELSE crossLog.aq ]
  /\ carIdx' = carIdx + 1
  /\ UNCHANGED << envVars, fileVars, val, pc, remainingTime, time >>

\* time++ at the end of the body of the while loop.
EndTick ==
  /\ pc = "car"
  /\ carIdx > Len(input.routes)
  /\ time' = time + 1
  /\ pc' = "tick"
  /\ UNCHANGED << envVars, fileVars, val, tk, aq, remainingTime, carIdx,
                  crossLog >>

\* ------------------------------------------------------- createInsights
\* The second command-line argument where it is given: omitted, 0 or 1.
OutputArgs == { << >> } \cup { <<Digits(n, 0)>> : n \in {0, 1} }

\* part_001: const [filePath, outputToFile = 0, debug = 0], read as +outputToFile
OutputToFile(args) == IF args = << >> THEN 0 ELSE ToNumber(args[1])

\* index.js: const [filePath, outputToStdout = 1, debug = 0], read as
\* +outputToStdout
OutputToStdout(args) == IF args = << >> THEN 1 ELSE ToNumber(args[1])

IsArrived(car) == car.arrived

\* The arrived cars in the order of the stable sort by commuteTime: car is put
\* behind the cars that are not later than it.
InsertByCommuteTime(sorted, car) ==
  LET k == Cardinality({ n \in 1..Len(sorted) :
                           sorted[n].commuteTime <= car.commuteTime })
  IN SubSeq(sorted, 1, k) \o << car >> \o SubSeq(sorted, k + 1, Len(sorted))

RECURSIVE SortByCommuteTime(_, _)
SortByCommuteTime(cars, k) ==
  IF k = 0 THEN << >>
  ELSE InsertByCommuteTime(SortByCommuteTime(cars, k - 1), cars[k])

\* Mutant: the cars are not filtered.
ArrivedCars_All(cars) == SortByCommuteTime(cars, Len(cars))

\* dataset.cars.filter(car => car.arrived).sort((a, b) => a.commuteTime - b.commuteTime)
ArrivedCars(cars) ==
  LET arrived == SelectSeq(cars, IsArrived)
  IN SortByCommuteTime(arrived, Len(arrived))

\* reduce((sum, x) => sum + f(x), 0) over the first k values of f.
RECURSIVE Reduce(_, _)
Reduce(f, k) == IF k = 0 THEN 0 ELSE Reduce(f, k - 1) + f[k]

\* The values the report is made of.
InsightsOf(d, in, noColor) ==
  LET arrivedCars == ArrivedCars(d.cars)
      numArrivedCars == Len(arrivedCars)
      score == Reduce([k \in 1..numArrivedCars |-> arrivedCars[k].score],
                      numArrivedCars)
      earlyArrivalBonus ==
        Reduce([k \in 1..numArrivedCars |->
                  arrivedCars[k].score - in.bonusPoint], numArrivedCars)
      commuteTimes ==
        Reduce([k \in 1..numArrivedCars |-> arrivedCars[k].commuteTime],
               numArrivedCars)
  IN [ noColor |-> noColor,
       score |-> score,
       bonusPoints |-> in.bonusPoint * numArrivedCars,
       bonusPoint |-> in.bonusPoint,
       earlyArrivalBonus |-> earlyArrivalBonus,
       numArrivedCars |-> numArrivedCars,
       numCars |-> Len(in.routes),
       earliest |-> IF numArrivedCars > 0
                    THEN << arrivedCars[1].commuteTime, arrivedCars[1].score >>
                    ELSE << >>,
       last |-> IF numArrivedCars > 0
                THEN << arrivedCars[numArrivedCars].commuteTime,
                        arrivedCars[numArrivedCars].score >>
                ELSE << >>,
       averageCommuteTime |-> Quotient(commuteTimes, numArrivedCars),
       numIntersections |-> in.numIntersections,
       totalCycles |-> d.averageIntersectionSchedules.totalCycles,
       greenCycles |-> d.averageIntersectionSchedules.greenCycles ]

\* simulate() has returned; createInsights() reads the output argument, one
\* of Args, and the final car states.
CreateInsights(Args) ==
  /\ pc = "insights"
  /\ \E args \in Args : argv' = args
  /\ tk' = IF ~TkLive THEN tk
           ELSE [tk EXCEPT
                   !.calls = @ \cup {"createInsights"},
                   !.insights = InsightsOf(tk, input, OutputToFile(argv') = 1)]
  /\ aq' = IF ~AqLive THEN aq
           ELSE [aq EXCEPT
                   !.calls = @ \cup {"createInsights"},
                   !.insights = InsightsOf(aq, input, OutputToStdout(argv') = 0)]
  /\ pc' = "done"
  /\ UNCHANGED << reads, input, fileVars, val, simVars >>

\* ------------------------------------------------------ reads and output
\* readInput(path): fs.readFile calls back with the text or with an error.
ReadInput(f) ==
  /\ reads[f] = "pending"
  /\ \E r \in {"done", "failed"} : reads' = [reads EXCEPT ![f] = r]
  /\ UNCHANGED << argv, input, fileVars, pc, val, tk, aq, simVars >>

\* Mutant: the chain goes on with the first read that resolves.
PromiseAllResolves_FirstRead ==
  /\ pc = "reading"
  /\ \E f \in Files : reads[f] = "done"
  /\ pc' = "parseInput"
  /\ UNCHANGED << envVars, fileVars, val, tk, aq, simVars >>

\* Promise.all([...]).then(evaluate): both reads have resolved.
PromiseAllResolves ==
  /\ pc = "reading"
  /\ \A f \in Files : reads[f] = "done"
  /\ pc' = "parseInput"
  /\ UNCHANGED << envVars, fileVars, val, tk, aq, simVars >>

\* Promise.all rejects with the first read that fails.
PromiseAllRejects ==
  /\ pc = "reading"
  /\ \E f \in Files : reads[f] = "failed"
  /\ tk' = Throws(tk, "ReadError")
  /\ aq' = Throws(aq, "ReadError")
  /\ pc' = "failed"
  /\ UNCHANGED << envVars, fileVars, val, simVars >>

\* part_001: !+outputToFile ? console.info(output) : writeOutput(...)
TicketPrints(args) == OutputToFile(args) = 0

\* index.js: +outputToStdout ? console.info(output) : writeOutput(...)
ArrayPrints(args) == OutputToStdout(args) # 0

\* The report is printed, or written to <filePath>.insights.txt; fs.writeFile
\* calls back with or without an error.
WriteReport ==
  /\ pc = "done"
  /\ \E ok \in BOOLEAN :
       /\ tk' = IF ~TkLive THEN tk
                ELSE IF TicketPrints(argv) THEN [tk EXCEPT !.stdout = TRUE]
                ELSE IF ok THEN [tk EXCEPT !.file = TRUE]
                ELSE Throws(tk, "WriteError")
       /\ aq' = IF ~AqLive THEN aq
                ELSE IF ArrayPrints(argv) THEN [aq EXCEPT !.stdout = TRUE]
                ELSE IF ok THEN [aq EXCEPT !.file = TRUE]
                ELSE Throws(aq, "WriteError")
  /\ pc' = "exit"
  /\ UNCHANGED << envVars, fileVars, val, simVars >>

\* ---------------------------------------------------------- specifications
\* Submissions of the full runs: intersections 1 and 2, one or two street
\* lines each, green durations 1 and 2, no street listed twice in an entry.
SimIdLines == { <<Digits(n, 0)>> : n \in {1, 2} }
SimCountLines == { <<Digits(n, 0)>> : n \in {1, 2} }
SimStreetLines ==
  { <<Word(s), Digits(g, 0)>> : s \in StreetNames, g \in {1, 2} }

ListedInCurrentEntry(name) ==
  /\ accepted # << >>
  /\ \E k \in 1..Len(accepted[Len(accepted)].streets) :
       accepted[Len(accepted)].streets[k].name = name

FreshStreetLines(L) == { l \in L : ~ListedInCurrentEntry(NameOf(l[1])) }

Init ==
  InitState(Datasets \cup {Scenario1}, "reading", [f \in Files |-> "pending"])

Next ==
  \/ \E f \in Files : ReadInput(f)
  \/ PromiseAllResolves
  \/ PromiseAllRejects
  \/ ParseInputDataSet
  \/ ParseSubmittedStart
  \/ ReadIntersection(SimIdLines, SimCountLines)
  \/ ReadStreet(FreshStreetLines(SimStreetLines))
  \/ CloseIntersection
  \/ FinishValidation
  \/ StartSimulate
  \/ Tick
  \/ ProcessCar
  \/ EndTick
  \/ CreateInsights({<< >>})
  \/ WriteReport

Spec == Init /\ [][Next]_vars

\* ------------------------------------------------------------------ claims
\* The cars of both implementations, as records [arrived, score, ...].
AllCars ==
  {tk.cars[i] : i \in 1..Len(tk.cars)} \cup {aq.cars[i] : i \in 1..Len(aq.cars)}

AllCrossings == crossLog.tk \cup crossLog.aq

\* The sum of the green durations of the first k street lines of an entry.
RECURSIVE GreenSum(_, _)
GreenSum(streets, k) ==
  IF k = 0 THEN 0 ELSE GreenSum(streets, k - 1) + streets[k].green

\* Tick t lies in the window that entry e gives to street s.
InWindowOfEntry(e, s, t) ==
  \E k \in 1..Len(e.streets) :
    /\ e.streets[k].name = s
    /\ GreenSum(e.streets, k - 1) <= t % GreenSum(e.streets, Len(e.streets))
    /\ t % GreenSum(e.streets, Len(e.streets)) <= GreenSum(e.streets, k) - 1

\* Street s is named by some street line of the submission.
HasScheduleEntry(s) ==
  \E n \in 1..Len(accepted) :
    \E k \in 1..Len(accepted[n].streets) : accepted[n].streets[k].name = s

\* C1: inside every tick remainingTime + time = duration, and every arrived
\* car has commuteTime in [0, duration] and
\* score = bonusPoint + (duration - commuteTime).
C1_ScoreOfArrivedCars ==
  /\ pc = "car" => remainingTime + time = input.duration
  /\ \A car \in AllCars :
       car.arrived =>
         /\ car.commuteTime \in 0..input.duration
         /\ car.score = input.bonusPoint + (input.duration - car.commuteTime)

C1_Witness ==
  /\ pc = "done"
  /\ \E i \in 1..Len(tk.cars) : tk.cars[i].arrived /\ tk.cars[i].commuteTime > 0
  /\ \E i \in 1..Len(aq.cars) : aq.cars[i].arrived /\ aq.cars[i].commuteTime > 0

\* C2: in every tick at most one car crosses from any street.
C2_OneCrossingPerStreet ==
  \A s \in StreetNames :
    /\ Cardinality({r \in crossLog.tk : r.street = s}) <= 1
    /\ Cardinality({r \in crossLog.aq : r.street = s}) <= 1

\* A car has crossed from a street in this tick, and a car processed after it
\* waits on the same street with a green light at the head of the queue: only
\* the marker of the tick holds it back.
C2_Witness ==
  /\ pc = "car"
  /\ \E r \in crossLog.tk : \E j \in 1..Len(tk.cars) :
       /\ r.car < j /\ j < carIdx
       /\ ~tk.cars[j].arrived
       /\ tk.cars[j].currentStreetName = r.street
       /\ tk.cars[j].remainingTimeOnStreet = 0
       /\ ~OnLastStreet(tk.cars[j])
       /\ TicketGreen(tk.streets[r.street], time)
       /\ TicketIsHead(tk.streets[r.street].lastQueuingNumber,
                       tk.cars[j].queuingNumber)
  /\ \E r \in crossLog.aq : \E j \in 1..Len(aq.cars) :
       /\ r.car < j /\ j < carIdx
       /\ ~aq.cars[j].arrived
       /\ aq.cars[j].remainingTimeOnStreet = 0
       /\ ~OnLastStreet(aq.cars[j])
       /\ ArrayIsHead(aq.streets[r.street].carIdQueue, j)
       /\ ArrayGreen(aq.intersectionSchedulesById, aq.streets[r.street].end,
                     r.street, time)

\* C3: a car crosses from a street at tick t only if the submission has an
\* entry for the intersection the street enters that lists the street, and
\* t mod (the cycle length of that entry) lies in the window of the street.
C3_CrossingInsideWindow ==
  \A r \in AllCrossings :
    \E n \in 1..Len(accepted) :
      /\ ~IsNaNLine(accepted[n].id)
      /\ LineToNumber(accepted[n].id) = StreetEnd[r.street]
      /\ InWindowOfEntry(accepted[n], r.street, r.time)

\* A crossing in a later cycle of a window that is not the whole cycle.
C3_Witness ==
  /\ \E r \in crossLog.tk : \E n \in 1..Len(accepted) :
       /\ Len(accepted[n].streets) = 2
       /\ InWindowOfEntry(accepted[n], r.street, r.time)
       /\ r.time >= GreenSum(accepted[n].streets, 2)
  /\ \E r \in crossLog.aq : \E n \in 1..Len(accepted) :
       /\ Len(accepted[n].streets) = 2
       /\ InWindowOfEntry(accepted[n], r.street, r.time)
       /\ r.time >= GreenSum(accepted[n].streets, 2)

\* C4: a car crosses a street only with the queuing number that follows the
\* last one that crossed it (the head of the array queue in index.js), and no
\* car still waiting on that street holds a smaller queuing number.
C4_QueueOrder ==
  /\ \A r \in crossLog.tk :
       /\ r.queuingNumber = r.last + 1
       /\ \A j \in 1..Len(tk.cars) :
            ( /\ j # r.car
              /\ ~tk.cars[j].arrived
              /\ tk.cars[j].currentStreetName = r.street
              /\ tk.cars[j].remainingTimeOnStreet = 0 )
            => tk.cars[j].queuingNumber > r.queuingNumber
  /\ \A r \in crossLog.aq : r.queue # << >> /\ r.queue[1] = r.car

\* The car that crossed is processed after a car that waits on the same street
\* with the next queuing number: the order in the tick is not the queue order.
C4_Witness ==
  /\ \E r \in crossLog.tk : \E j \in 1..Len(tk.cars) :
       /\ j < r.car
       /\ ~tk.cars[j].arrived
       /\ tk.cars[j].currentStreetName = r.street
       /\ tk.cars[j].remainingTimeOnStreet = 0
       /\ tk.cars[j].queuingNumber = r.queuingNumber + 1
  /\ \E r \in crossLog.aq : \E j \in 1..Len(aq.cars) :
       /\ j < r.car
       /\ Len(r.queue) >= 2
       /\ r.queue[2] = j

\* C5: no car crosses out of a street that no street line of the submission
\* names, and a car arrives only on the last street of its route.
C5_UnscheduledStreetStalls ==
  /\ \A r \in AllCrossings : HasScheduleEntry(r.street)
  /\ \A car \in AllCars : car.arrived => OnLastStreet(car)

\* At the end of the run a car still waits, at the head of the queue, at the
\* end of a street that was never scheduled while other streets were.
C5_Witness ==
  /\ pc = "done"
  /\ accepted # << >>
  /\ \E i \in 1..Len(tk.cars) :
       /\ ~tk.cars[i].arrived
       /\ ~OnLastStreet(tk.cars[i])
       /\ tk.cars[i].remainingTimeOnStreet = 0
       /\ ~HasScheduleEntry(tk.cars[i].currentStreetName)
       /\ TicketIsHead(tk.streets[tk.cars[i].currentStreetName]
                         .lastQueuingNumber, tk.cars[i].queuingNumber)
       /\ ~aq.cars[i].arrived
       /\ aq.cars[i].currentStreetIdx = tk.cars[i].currentStreetIdx
       /\ tk.cars[i].currentStreetIdx > 0

\* C6: no car crosses on the last tick, and a car that arrives on the last
\* tick scores exactly the bonus.
C6_FinalTick ==
  /\ \A r \in AllCrossings : r.time < input.duration
  /\ \A car \in AllCars :
       (car.arrived /\ car.commuteTime = input.duration)
         => car.score = input.bonusPoint

\* After the last tick: one car has arrived on the last tick, another one stands
\* at the head of the queue of a non-final street with a green light.
C6_Witness ==
  /\ pc = "insights"
  /\ \E i, j \in 1..Len(tk.cars) :
       /\ tk.cars[i].arrived /\ tk.cars[i].commuteTime = input.duration
       /\ aq.cars[i].arrived /\ aq.cars[i].commuteTime = input.duration
       /\ ~tk.cars[j].arrived
       /\ ~OnLastStreet(tk.cars[j])
       /\ tk.cars[j].remainingTimeOnStreet = 0
       /\ TicketGreen(tk.streets[tk.cars[j].currentStreetName], input.duration)
       /\ TicketIsHead(tk.streets[tk.cars[j].currentStreetName]
                         .lastQueuingNumber, tk.cars[j].queuingNumber)
       /\ ~aq.cars[j].arrived
       /\ aq.cars[j].remainingTimeOnStreet = 0
       /\ ArrayIsHead(aq.streets[tk.cars[j].currentStreetName].carIdQueue, j)

\* C7 as stated: in scenario 1 the car arrives with commute time 3 and
\* score 1002.
C7_ScenarioAsStated ==
  (input = Scenario1 /\ pc = "done") =>
    \A car \in AllCars :
      car.arrived /\ car.commuteTime = 3 /\ car.score = 1002

\* C7 amended: a car whose route is a single street arrives in tick 0 whatever
\* the duration of the street, with commute time 0 and
\* score = bonusPoint + duration (1005 in scenario 1).
C7_SingleStreetArrivesAtTickZero ==
  pc \in {"tick", "car", "insights", "done"} /\ time >= 1 =>
    \A car \in AllCars :
      car.numStreets = 1 =>
        /\ car.arrived
        /\ car.commuteTime = 0
        /\ car.score = input.bonusPoint + input.duration

C7_Witness ==
  /\ input = Scenario1
  /\ pc = "done"
  /\ \A car \in AllCars : car.arrived /\ car.commuteTime = 0 /\ car.score = 1005

\* Submissions of the validator runs, on one dataset: every kind of token the
\* checks tell apart, the same intersection under two texts, a street that is
\* not in the dataset, empty lines and a file that ends early.
ValidatorDataset ==
  [ duration |-> MaxDuration - 1,
    numIntersections |-> Cardinality({StreetEnd[s] : s \in StreetNames}) + 1,
    bonusPoint |-> 1000,
    streetDuration |-> [a |-> 1, b |-> 1, c |-> 1],
    routes |-> << <<"a", "c">> >> ]

ValIdLines == { <<Digits(1, 0)>>, <<Digits(1, 1)>>, <<Digits(2, 0)>> }
ValCountLines ==
  { <<Digits(n, 0)>> : n \in 0..2 } \cup { <<EmptyToken>>, <<Word("x")>> }
ValStreetLines ==
  { <<Word(s), Digits(g, 0)>> :
      s \in {"a", "c"}, g \in 0..(ValidatorDataset.duration + 1) }
  \cup { <<Word("z"), Digits(1, 0)>>, <<Word("a"), Word("x")>>,
         <<Word("a")>>, <<EmptyToken>> }

InitV == InitWith({ValidatorDataset})

NextV ==
  \/ ParseInputDataSet
  \/ ParseSubmittedStart
  \/ ReadIntersection(ValIdLines, ValCountLines)
  \/ ReadStreet(ValStreetLines)
  \/ CloseIntersection
  \/ FinishValidation

SpecV == InitV /\ [][NextV]_vars

\* The line of the street step that failed (the loop variables stay as they
\* were when the error was thrown).
FailedLine == At(lines, val.currentLine + val.i + 2 + val.j)

StreetLineErrors ==
  { "TypeError", "StreetIntersectionMismatch", "MalformedGreenDuration",
    "GreenDurationOutOfRange" }

\* The street named by the line is in the dataset and enters another
\* intersection than the one of the entry.
NamesStreetOfOtherIntersection(line, id) ==
  /\ NameOf(line[1]) \in StreetNames
  /\ (IsNaNLine(id) \/ StreetEnd[NameOf(line[1])] # LineToNumber(id))

\* C8: a green duration is accepted only if it is a number in 1..duration; a
\* line is rejected as out of range only for a number outside 1..duration, as
\* not a number only for a token that is not a number, and a number outside
\* 1..duration on a line that passes the earlier checks is rejected as out of
\* range.
C8_GreenDurationRange ==
  /\ \A n \in 1..Len(accepted) : \A k \in 1..Len(accepted[n].streets) :
       accepted[n].streets[k].green \in 1..input.duration
  /\ (pc = "failed" /\ aq.err = "GreenDurationOutOfRange") =>
       /\ FailedLine # Undefined
       /\ ~ScheduleIsNaN(FailedLine)
       /\ ScheduleOf(FailedLine) \notin 1..input.duration
  /\ (pc = "failed" /\ aq.err = "MalformedGreenDuration") =>
       /\ FailedLine # Undefined
       /\ ScheduleIsNaN(FailedLine)
  /\ ( /\ pc = "failed"
       /\ aq.err \in StreetLineErrors
       /\ FailedLine # Undefined
       /\ ~NamesStreetOfOtherIntersection(FailedLine, val.intersectionId)
       /\ ~ScheduleIsNaN(FailedLine)
       /\ ScheduleOf(FailedLine) \notin 1..input.duration )
     => /\ aq.err = "GreenDurationOutOfRange"
        /\ tk.err \in {"GreenDurationOutOfRange", "TypeError"}

\* A line with green duration = duration was accepted, and the next one, with
\* duration + 1, is rejected as out of range by both implementations.
C8_Witness ==
  /\ pc = "failed"
  /\ aq.err = "GreenDurationOutOfRange"
  /\ tk.err = "GreenDurationOutOfRange"
  /\ ScheduleOf(FailedLine) = input.duration + 1
  /\ \E k \in 1..Len(accepted[Len(accepted)].streets) :
       accepted[Len(accepted)].streets[k].green = input.duration

\* C9 as stated: whenever a read goes past the end of the submission, the run
\* fails with TruncatedSubmission.
C9_TruncationReported ==
  eof => /\ pc = "failed"
         /\ aq.err = "TruncatedSubmission"
         /\ tk.err \in {"TruncatedSubmission", "TypeError"}

\* C10 as stated: no two entries that pass the duplicate check schedule the
\* same intersection.
C10_NoIntersectionScheduledTwice ==
  \A n, m \in 1..Len(accepted) :
    ( /\ n < m
      /\ ~IsNaNLine(accepted[n].id)
      /\ ~IsNaNLine(accepted[m].id) )
    => LineToNumber(accepted[n].id) # LineToNumber(accepted[m].id)


\* ------------------------------------------- whole runs of the program
\* Runs from the two reads to the output: deadlines from 0 on, a street line
\* that names a street the dataset does not have, two spellings of the id of
\* one intersection, every output argument.
RunRoutes == { <<"a">>, <<"a", "c">>, <<"b", "c">> }

RunDatasets ==
  [ duration : 0..(MaxDuration - 1),
    numIntersections : {Cardinality({StreetEnd[s] : s \in StreetNames}) + 1},
    bonusPoint : {1000},
    streetDuration : {[a |-> 1, b |-> 1, c |-> 1]},
    routes : UNION { [1..n -> RunRoutes] : n \in 1..2 } ]

RunStreetLines ==
  { <<Word(s), Digits(1, 0)>> : s \in StreetNames \cup {"z"} }

\* The ids of Spec and a second spelling of intersection 1.
RunIdLines == SimIdLines \cup { <<Digits(1, 1)>> }

InitU == InitState(RunDatasets, "reading", [f \in Files |-> "pending"])

NextU ==
  \/ \E f \in Files : ReadInput(f)
  \/ PromiseAllResolves
  \/ PromiseAllRejects
  \/ ParseInputDataSet
  \/ ParseSubmittedStart
  \/ ReadIntersection(RunIdLines, SimCountLines)
  \/ ReadStreet(FreshStreetLines(RunStreetLines))
  \/ CloseIntersection
  \/ FinishValidation
  \/ StartSimulate
  \/ Tick
  \/ ProcessCar
  \/ EndTick
  \/ CreateInsights(OutputArgs)
  \/ WriteReport

SpecU == InitU /\ [][NextU]_vars

\* Some street line that was accepted names a street the dataset does not have.
UnknownStreetAccepted ==
  \E n \in 1..Len(accepted) : \E k \in 1..Len(accepted[n].streets) :
    accepted[n].streets[k].name \notin StreetNames

\* C11 as stated: a street line naming a street of the dataset is accepted
\* only under the intersection the street ends at and is otherwise rejected
\* with StreetIntersectionMismatch; a line naming a street the dataset does
\* not have is not rejected for that, so that a submission whose lines all
\* pass the other checks validates without any error.
C11_StreetOfTheEntry ==
  /\ \A n \in 1..Len(accepted) : \A k \in 1..Len(accepted[n].streets) :
       accepted[n].streets[k].name \in StreetNames =>
         /\ ~IsNaNLine(accepted[n].id)
         /\ StreetEnd[accepted[n].streets[k].name] = LineToNumber(accepted[n].id)
  /\ (pc = "failed" /\ aq.err = "StreetIntersectionMismatch") =>
       NamesStreetOfOtherIntersection(FailedLine, val.intersectionId)
  /\ (pc = "failed" /\ tk.err = "StreetIntersectionMismatch") =>
       NamesStreetOfOtherIntersection(FailedLine, val.intersectionId)
  /\ (pc = "simulate" /\ UnknownStreetAccepted) => TkLive /\ AqLive

\* The errors parseSubmittedDataSet() ends with.
ValidationErrors ==
  { "TruncatedSubmission", "MalformedCount", "DuplicateIntersectionSchedule",
    "TypeError", "StreetIntersectionMismatch", "MalformedGreenDuration",
    "GreenDurationOutOfRange" }

\* No car of d has been moved by simulate().
CarsUntouched(d) ==
  \A i \in 1..Len(d.cars) :
    /\ ~d.cars[i].arrived
    /\ d.cars[i].currentStreetIdx = 0
    /\ d.cars[i].remainingTimeOnStreet = InitialRemainingTimeOnStreet(
                                           input, d.cars[i].streetNames)

\* C12: a run whose validation ended with an error never enters simulate() or
\* createInsights(), moves no car and prints or writes no report, and
\* simulate() is entered only when parseSubmittedDataSet() has gone through
\* all the intersections the submission declares without an error.
C12_NoRunAfterValidationError ==
  \A d \in {tk, aq} :
    /\ d.err \in ValidationErrors =>
         /\ "simulate" \notin d.calls
         /\ "createInsights" \notin d.calls
         /\ CarsUntouched(d)
         /\ d.insights = NoInsights
         /\ ~d.stdout
         /\ ~d.file
    /\ "simulate" \in d.calls =>
         /\ "parseSubmittedDataSet" \in d.calls
         /\ d.err \notin ValidationErrors
         /\ val.i >= declared
         /\ pc \notin {"parseSubmitted", "intersection", "street", "failed"}

\* part_001 has failed on a street the dataset does not have and has printed
\* its error, while index.js has simulated the same submission to the end and
\* printed its report.
C12_Witness ==
  /\ pc = "exit"
  /\ tk.err = "TypeError"
  /\ tk.stderr
  /\ "simulate" \in aq.calls
  /\ aq.stdout
  /\ \E i \in 1..Len(aq.cars) : aq.cars[i].arrived

\* Offset o lies in the window w = <<gte, lte>>.
InWindow(w, o) == w # Undefined /\ w[1] <= o /\ o <= w[2]

\* C13 as stated: after a successful validation every offset of the cycle of
\* a scheduled intersection lies in the green window of exactly one of the
\* streets scheduled for it, and the windows follow each other from offset 0
\* in the order of the street lines.
C13_WindowsTileTheCycle ==
  pc = "simulate" =>
    /\ AqLive =>
         \A id \in DOMAIN aq.intersectionSchedulesById :
           LET e == aq.intersectionSchedulesById[id]
           IN \A o \in 0..(e.scheduledTimeWindow - 1) :
                Cardinality({ s \in DOMAIN e.windows :
                                InWindow(e.windows[s], o) }) = 1
    /\ TkLive =>
         \A s \in StreetNames :
           tk.streets[s].schedule # Undefined =>
             \A o \in 0..(tk.streets[s].scheduledTimeWindow - 1) :
               Cardinality({ r \in StreetNames :
                               /\ tk.streets[r].end = tk.streets[s].end
                               /\ InWindow(tk.streets[r].schedule, o) }) = 1
    /\ \A n \in 1..Len(accepted) : \A k \in 1..Len(accepted[n].streets) :
         LET name == accepted[n].streets[k].name
             w == << GreenSum(accepted[n].streets, k - 1),
                     GreenSum(accepted[n].streets, k) - 1 >>
         IN /\ AqLive => aq.intersectionSchedulesById[accepted[n].id]
                           .windows[name] = w
            /\ (TkLive /\ name \in StreetNames) => tk.streets[name].schedule = w

\* The sum, over the arrived cars among the first k, of score - less.
RECURSIVE ArrivedScoreSum(_, _, _)
ArrivedScoreSum(cars, k, less) ==
  IF k = 0 THEN 0
  ELSE ArrivedScoreSum(cars, k - 1, less)
       + (IF cars[k].arrived THEN cars[k].score - less ELSE 0)

\* C14: the total score of the report is bonus x number of arrived cars plus
\* the early-arrival points; the total is the sum of the scores of the
\* arrived cars, the early-arrival points are the sum of score - bonus over
\* the arrived cars, and a car that has not arrived adds 0 to each of them.
C14_ScoreDecomposition ==
  \A d \in {tk, aq} :
    "createInsights" \in d.calls =>
      LET arrived == { i \in 1..Len(d.cars) : d.cars[i].arrived }
          r == d.insights
      IN /\ r.score = r.bonusPoints + r.earlyArrivalBonus
         /\ r.numArrivedCars = Cardinality(arrived)
         /\ r.bonusPoints = input.bonusPoint * Cardinality(arrived)
         /\ r.score = ArrivedScoreSum(d.cars, Len(d.cars), 0)
         /\ r.earlyArrivalBonus =
              ArrivedScoreSum(d.cars, Len(d.cars), input.bonusPoint)

\* A report over two cars of which one has arrived before the deadline, with
\* early-arrival points, and the other has not arrived.
C14_Witness ==
  /\ pc = "done"
  /\ "createInsights" \in tk.calls
  /\ "createInsights" \in aq.calls
  /\ tk.insights.numArrivedCars = 1
  /\ tk.insights.earlyArrivalBonus > 0
  /\ tk.insights.score = tk.insights.bonusPoint + tk.insights.earlyArrivalBonus
  /\ \E i \in 1..Len(tk.cars) : ~tk.cars[i].arrived

\* The sum of the cycle lengths of the first n entries of the submission.
RECURSIVE CycleSum(_, _)
CycleSum(entries, n) ==
  IF n = 0 THEN 0
  ELSE CycleSum(entries, n - 1)
       + GreenSum(entries[n].streets, Len(entries[n].streets))

\* C15 as stated: the average cycle length of the report is the sum of the
\* cycle lengths of the scheduled intersections divided by the number of
\* intersections the submission schedules.
C15_AverageOverScheduled ==
  \A d \in {tk, aq} :
    ("createInsights" \in d.calls /\ Len(accepted) > 0) =>
      /\ d.insights.totalCycles.den # 0
      /\ d.insights.totalCycles.num * Len(accepted) =
           CycleSum(accepted, Len(accepted)) * d.insights.totalCycles.den

\* C15: the average cycle length of the report is the sum of the cycle
\* lengths of the scheduled intersections divided by the number of
\* intersections of the dataset, which is also the number of traffic lights
\* the report names.
C15_AverageOverDatasetIntersections ==
  \A d \in {tk, aq} :
    "createInsights" \in d.calls =>
      /\ d.insights.totalCycles =
           Quotient(CycleSum(accepted, Len(accepted)), input.numIntersections)
      /\ d.insights.numIntersections = input.numIntersections

\* A report on a submission that schedules two of the three intersections of
\* the dataset, with cycle lengths 2 and 1.
C15_Witness ==
  /\ pc = "done"
  /\ "createInsights" \in tk.calls
  /\ "createInsights" \in aq.calls
  /\ Len(accepted) = 2
  /\ input.numIntersections = 3
  /\ tk.insights.totalCycles = Quotient(3, 3)
  /\ aq.insights.totalCycles = Quotient(3, 3)

\* C16: either read can settle while the other is pending; evaluate() is
\* entered only when both reads have resolved; when a read has failed no
\* function of evaluate() is ever entered, no car exists, and no report is
\* printed or written.
C16_EvaluateAfterBothReads ==
  /\ \A f \in Files : reads[f] = "pending" => ENABLED ReadInput(f)
  /\ (pc \notin {"reading", "failed"} \/ tk.calls # {} \/ aq.calls # {}) =>
       \A f \in Files : reads[f] = "done"
  /\ (\E f \in Files : reads[f] = "failed") =>
       /\ pc \in {"reading", "failed"}
       /\ \A d \in {tk, aq} :
            /\ d.calls = {}
            /\ d.cars = << >>
            /\ ~d.stdout
            /\ ~d.file

\* The submission has been read, the read of the dataset has failed, and the
\* chain has ended in the error handler without entering evaluate().
C16_Witness ==
  /\ reads["submission"] = "done"
  /\ reads["dataset"] = "failed"
  /\ pc = "failed"
  /\ tk.err = "ReadError" /\ tk.stderr /\ tk.calls = {}
  /\ aq.err = "ReadError" /\ aq.stderr /\ aq.calls = {}

\* A run of d that has ended with a report and without an error.
Succeeded(d) == d.err = "none" /\ "createInsights" \in d.calls

\* The destination of the report of d agrees with the usage of the README
\* for the arguments args.
OutputAsDocumented(d, args) ==
  /\ args = << Digits(1, 0) >> => d.file /\ ~d.stdout
  /\ args = << >> => d.stdout /\ ~d.file

\* C17 as stated: after a successful run, with second argument 1 the report
\* is in the file and nothing is on stdout; with the argument omitted the
\* report is on stdout and no file is written.
C17_OutputChannel ==
  pc = "exit" =>
    /\ Succeeded(tk) => OutputAsDocumented(tk, argv)
    /\ Succeeded(aq) => OutputAsDocumented(aq, argv)

\* The step processes car carIdx of the current tick.
CarStep == pc = "car" /\ carIdx <= Len(input.routes) /\ carIdx' = carIdx + 1

\* The step gives out the next queuing number of street s (part_001).
TakesNumberOf(s) ==
  tk'.streets[s].nextQueuingNumber = tk.streets[s].nextQueuingNumber + 1

\* The car is on a street that is not its last and has one tick left on it.
FinishingStreet(car) ==
  /\ ~car.arrived
  /\ car.remainingTimeOnStreet = 1
  /\ car.currentStreetIdx < car.numStreets - 1

\* C18 as stated: a car takes a queuing number in the tick whose decrement
\* leaves its remaining time at 1, and the number is that of the next street
\* of its route.
C18_RegisteredOneTickEarly ==
  [][ \A s \in StreetNames :
        (CarStep /\ TkLive /\ TakesNumberOf(s)) =>
          /\ tk'.cars[carIdx].remainingTimeOnStreet = 1
          /\ s = tk.cars[carIdx].streetNames[tk.cars[carIdx].currentStreetIdx + 2]
    ]_vars

\* C18: a car with a further street to travel is registered in the tick
\* whose decrement takes its remaining time from 1 to 0, the tick in which it
\* finishes the street, and in no other tick; the queue is that of the street
\* it finishes: part_001 gives it the next queuing number of that street,
\* index.js appends it to the carIdQueue of that street, from which it is
\* taken again in the same step only if it crosses.
C18_RegisteredWhenFinishingStreet ==
  [][ CarStep =>
        /\ TkLive =>
             LET car == tk.cars[carIdx]
                 crossed == tk'.cars[carIdx].currentStreetIdx
                              # car.currentStreetIdx
             IN /\ \A s \in StreetNames :
                     TakesNumberOf(s) <=>
                       (FinishingStreet(car) /\ s = car.currentStreetName)
                /\ \A s \in StreetNames :
                     tk'.streets[s].nextQueuingNumber
                       \in { tk.streets[s].nextQueuingNumber,
                             tk.streets[s].nextQueuingNumber + 1 }
                /\ FinishingStreet(car) =>
                     /\ tk'.cars[carIdx].queuingNumber =
                          tk.streets[car.currentStreetName].nextQueuingNumber
                     /\ crossed \/ tk'.cars[carIdx].remainingTimeOnStreet = 0
                /\ ~FinishingStreet(car) =>
                     tk'.cars[carIdx].queuingNumber = car.queuingNumber
        /\ AqLive =>
             LET car == aq.cars[carIdx]
                 street == car.streetNames[car.currentStreetIdx + 1]
                 crossed == aq'.cars[carIdx].currentStreetIdx
                              # car.currentStreetIdx
                 queue == aq.streets[street].carIdQueue
                 registered == IF FinishingStreet(car)
                               THEN Append(queue, carIdx) ELSE queue
             IN /\ aq'.streets[street].carIdQueue =
                     IF crossed THEN Tail(registered) ELSE registered
                /\ \A s \in StreetNames \ {street} :
                     aq'.streets[s].carIdQueue = aq.streets[s].carIdQueue
    ]_vars

\* A car has just finished a street that is not the first of its route nor
\* the last: it holds the latest queuing number of that street in part_001
\* and is the last of the carIdQueue of that street in index.js.
C18_Witness ==
  /\ pc = "car"
  /\ \E i \in 1..Len(tk.cars) :
       /\ i = carIdx - 1
       /\ ~tk.cars[i].arrived
       /\ tk.cars[i].currentStreetIdx \in 1..(tk.cars[i].numStreets - 2)
       /\ tk.cars[i].remainingTimeOnStreet = 0
       /\ tk.cars[i].queuingNumber + 1 =
            tk.streets[tk.cars[i].currentStreetName].nextQueuingNumber
       /\ aq.cars[i].currentStreetIdx = tk.cars[i].currentStreetIdx
       /\ LET q == aq.streets[tk.cars[i].currentStreetName].carIdQueue
          IN Len(q) > 0 /\ q[Len(q)] = i

\* A bound on the steps simulate() still has to take: it falls with every
\* step of the loops and is negative once simulate() has returned.
LoopRank ==
  LET n == Len(input.routes)
  IN IF pc = "tick" THEN remainingTime * (n + 2)
     ELSE IF pc = "car" THEN remainingTime * (n + 2) + (n + 2 - carIdx)
     ELSE -1

\* C19: for every duration >= 0 simulate() returns after duration + 1 passes
\* of the tick body, with time = 0, 1, ..., duration in this order (every
\* step of the loops is enabled and lowers a non-negative bound; a pass ends
\* with time + 1; time is duration + 1 at the return); within a pass the
\* cars are processed one by one from the first to the last, each once, and
\* a step touches no other car than the one it processes.
C19_TicksAndCarOrder ==
  /\ [] ( /\ pc = "tick" =>
               /\ time \in 0..(input.duration + 1)
               /\ remainingTime + time = input.duration + 1
          /\ pc = "car" =>
               /\ time \in 0..input.duration
               /\ remainingTime + time = input.duration
               /\ carIdx \in 1..(Len(input.routes) + 1)
          /\ pc \in {"tick", "car"} =>
               /\ LoopRank >= 0
               /\ ENABLED (Tick \/ ProcessCar \/ EndTick)
          /\ pc \in {"insights", "done", "exit"} =>
               /\ time = input.duration + 1
               /\ remainingTime = -1 )
  /\ [][ /\ pc \in {"tick", "car"} => LoopRank' < LoopRank
         /\ (pc = "tick" /\ pc' = "car") => carIdx' = 1 /\ time' = time
         /\ (pc = "car" /\ pc' = "car") =>
              /\ carIdx' = carIdx + 1
              /\ time' = time
              /\ \A i \in 1..Len(input.routes) :
                   i # carIdx =>
                     /\ TkLive => tk'.cars[i] = tk.cars[i]
                     /\ AqLive => aq'.cars[i] = aq.cars[i]
         /\ (pc = "car" /\ pc' = "tick") =>
              /\ carIdx = Len(input.routes) + 1
              /\ time' = time + 1
         /\ (pc = "tick" /\ pc' = "insights") => time = input.duration + 1
    ]_vars

\* With duration 0 simulate() has returned after one pass, in which a car on
\* the last street of its route has arrived at tick 0.
C19_Witness ==
  /\ pc = "insights"
  /\ input.duration = 0
  /\ time = 1
  /\ \E i \in 1..Len(tk.cars) : tk.cars[i].arrived /\ tk.cars[i].commuteTime = 0

\* C20: once a car has arrived no step changes any of its fields (score,
\* commuteTime, route index, remaining time, queuing number), and the step
\* that processes it in a later tick changes no street, queue, queuing
\* counter or crossing marker and records no crossing.
C20_ArrivedIsTerminal ==
  [][ /\ \A i \in 1..Len(tk.cars) :
           tk.cars[i].arrived => tk'.cars[i] = tk.cars[i]
      /\ \A i \in 1..Len(aq.cars) :
           aq.cars[i].arrived => aq'.cars[i] = aq.cars[i]
      /\ (CarStep /\ TkLive /\ tk.cars[carIdx].arrived) =>
           /\ tk' = tk
           /\ crossLog'.tk = crossLog.tk
      /\ (CarStep /\ AqLive /\ aq.cars[carIdx].arrived) =>
           /\ aq' = aq
           /\ crossLog'.aq = crossLog.aq
    ]_vars

\* A car that arrived in an earlier tick has been passed over in the current
\* tick and still has the score and the commute time of its arrival.
C20_Witness ==
  /\ pc = "car"
  /\ \E i \in 1..Len(tk.cars) :
       /\ i < carIdx
       /\ tk.cars[i].arrived
       /\ aq.cars[i].arrived
       /\ tk.cars[i].commuteTime < time
       /\ tk.cars[i].score = input.bonusPoint + input.duration
                               - tk.cars[i].commuteTime
       /\ aq.cars[i].score = tk.cars[i].score

\* part_001: the cars that hold a queuing number of street s that has not
\* been consumed: they stand at the end of s, where they were registered (at
\* parse time on the first street of the route, else on finishing s with a
\* further street to travel), and their number is after lastQueuingNumber.
TicketHolders(s) ==
  { i \in 1..Len(tk.cars) :
      /\ tk.cars[i].currentStreetName = s
      /\ tk.cars[i].remainingTimeOnStreet = 0
      /\ \/ tk.cars[i].currentStreetIdx = 0
         \/ tk.cars[i].currentStreetIdx < tk.cars[i].numStreets - 1
      /\ tk.cars[i].queuingNumber > tk.streets[s].lastQueuingNumber }

\* C21: with street durations >= 1 and a submission that names only streets
\* of the dataset, in every state from parsing on (so after every tick) each
\* car has the same route index, remaining time, arrived flag, score and
\* commuteTime in index.js and in part_001, and the carIdQueue of every
\* street lists exactly the cars that hold an unconsumed queuing number of
\* that street, in the order of their numbers.
C21_VariantsEquivalent ==
  ("parseInputDataSet" \in tk.calls /\ TkLive /\ AqLive) =>
    /\ Len(aq.cars) = Len(tk.cars)
    /\ \A i \in 1..Len(tk.cars) :
         /\ aq.cars[i].currentStreetIdx = tk.cars[i].currentStreetIdx
         /\ aq.cars[i].remainingTimeOnStreet = tk.cars[i].remainingTimeOnStreet
         /\ aq.cars[i].arrived = tk.cars[i].arrived
         /\ aq.cars[i].score = tk.cars[i].score
         /\ aq.cars[i].commuteTime = tk.cars[i].commuteTime
         /\ tk.cars[i].currentStreetName =
              tk.cars[i].streetNames[tk.cars[i].currentStreetIdx + 1]
    /\ \A s \in StreetNames :
         LET queue == aq.streets[s].carIdQueue
         IN /\ { queue[k] : k \in 1..Len(queue) } = TicketHolders(s)
            /\ \A k, l \in 1..Len(queue) :
                 k < l => tk.cars[queue[k]].queuingNumber
                            < tk.cars[queue[l]].queuingNumber

\* Car number i of d stands at the end of street s, has not arrived and has a
\* further street to travel.
WaitsToCross(d, i, s) ==
  /\ ~d.cars[i].arrived
  /\ d.cars[i].streetNames[d.cars[i].currentStreetIdx + 1] = s
  /\ d.cars[i].remainingTimeOnStreet = 0
  /\ d.cars[i].currentStreetIdx < d.cars[i].numStreets - 1

\* C22 as stated: on every street with an unconsumed queuing number the
\* number after lastQueuingNumber is held by a car that waits to cross from
\* that street (part_001), and the head of a carIdQueue that is not empty is
\* such a car (index.js).
C22_NoOrphanedPosition ==
  /\ TkLive =>
       \A s \in DOMAIN tk.streets :
         tk.streets[s].nextQueuingNumber > tk.streets[s].lastQueuingNumber + 1
           => \E i \in 1..Len(tk.cars) :
                /\ tk.cars[i].queuingNumber =
                     tk.streets[s].lastQueuingNumber + 1
                /\ WaitsToCross(tk, i, s)
  /\ AqLive =>
       \A s \in DOMAIN aq.streets :
         aq.streets[s].carIdQueue # << >>
           => WaitsToCross(aq, aq.streets[s].carIdQueue[1], s)

\* part_001 and index.js: the light of street s is green at tick t.
GreenInTicket(s, t) == TicketGreen(tk.streets[s], t)
GreenInArray(s, t) ==
  ArrayGreen(aq.intersectionSchedulesById, aq.streets[s].end, s, t)

\* C23 as stated: in the ticks of the simulation at most one of the streets
\* that enter an intersection is green, and no two cars cross the same
\* intersection in one tick.
C23_OneCrossingPerIntersection ==
  /\ \A x, y \in crossLog.tk :
       StreetEnd[x.street] = StreetEnd[y.street] => x.car = y.car
  /\ \A x, y \in crossLog.aq :
       StreetEnd[x.street] = StreetEnd[y.street] => x.car = y.car
  /\ pc \in {"tick", "car"} =>
       \A s, r \in StreetNames :
         (s # r /\ StreetEnd[s] = StreetEnd[r]) =>
           /\ TkLive => ~(GreenInTicket(s, time) /\ GreenInTicket(r, time))
           /\ AqLive => ~(GreenInArray(s, time) /\ GreenInArray(r, time))

====
